---- MODULE Spec2Model ----
(***************************************************************************)
(* setup-pubsub-emulator: main() of src/main.go run against a Pub/Sub      *)
(* emulator.  One instance is the sequence environment validation ->       *)
(* resolve -> waitForPubSubEmulator -> NewClient -> dead-letter topic ->   *)
(* main topic -> subscription.  Every emulator call is one atomic step;    *)
(* the emulator is the shared state (topics, the subscription).            *)
(***************************************************************************)
EXTENDS Integers, Sequences, FiniteSets, TLC

\* ------------------------------------------------------------------ bounds
\* how many times in a row the utility is run (sequential specification)
MaxRuns == 2
\* longest a failing or succeeding net.Dial takes, in seconds
MaxDialTime == 1
\* how much longer than asked time.Sleep may sleep, in seconds
MaxOversleep == 1
\* largest timeout handed to waitForPubSubEmulator in SpecWait, in seconds
MaxTimeout == 7

\* ------------------------------------------------------- program constants
\* 30*time.Second, the timeout main passes          (seconds)
MainTimeout == 30
\* time.Sleep(2 * time.Second) between dial attempts (seconds)
SleepInterval == 2
\* DeadLetterPolicy.MaxDeliveryAttempts
MaxDeliveryAttempts == 10
\* SubscriptionConfig.AckDeadline                    (seconds)
AckDeadline == 60

Procs == {1, 2}
TopicNames == {"t1", "t2"}

VARIABLES
  env,        \* the process environment after dotenv: the five identifiers
  topics,     \* emulator: topic id -> [exists, by]   (by = 0: before any run)
  sub,        \* emulator: the subscription named env.subID
  pc,         \* per instance: position in main / waitForPubSubEmulator
  exists,     \* per instance: main's local `exists`
  timeout,    \* waitForPubSubEmulator's parameter
  clock,      \* time.Now() measured from the call of waitForPubSubEmulator
  deadline,   \* waitForPubSubEmulator's local `deadline`, same origin
  attempts,   \* history: net.Dial calls made by the current wait
  dialStart,  \* history: clock value at which the last net.Dial started
  dialOk,     \* history: whether some net.Dial of the current wait succeeded
  waitErr,    \* main's `err` after line 81: "none", "nil" or "timeout"
  calls,      \* history: emulator calls of the current run, in order
  netUsed,    \* history: the current run resolved, dialled or made a client
  extFailed,  \* history: a call of the current run failed for an outside reason
  run,        \* per instance: identifier of its current run
  prevDone,   \* history: the previous run of this instance logged completion
  snap        \* history: the emulator as it was when the current run started

vars == <<env, topics, sub, pc, exists, timeout, clock, deadline, attempts,
          dialStart, dialOk, waitErr, calls, netUsed, extFailed, run, prevDone, snap>>

emuVars == <<topics, sub>>
waitVars == <<timeout, clock, deadline, attempts, dialStart, dialOk>>
histVars == <<run, prevDone, snap>>

\* ------------------------------------------------------------- data
NoTopic == [exists |-> FALSE, by |-> 0]
NoSub == [exists |-> FALSE, topic |-> "", dlt |-> <<>>, maxAttempts |-> 0, ack |-> 0, by |-> 0]

\* Topic.String(): the full topic name "projects/PROJECT_ID/topics/TOPIC_ID"
TopicString(project, id) == <<"projects", project, "topics", id>>

\* mutant: the dead-letter policy is left out of the configuration
SubConfigNoDeadLetter == [topic |-> env.topicID,
                          dlt |-> <<>>,
                          maxAttempts |-> 0,
                          ack |-> AckDeadline]

\* the subConfig main builds
SubConfig == [topic |-> env.topicID,
              dlt |-> TopicString(env.projectID, env.dltID),
              maxAttempts |-> MaxDeliveryAttempts,
              ack |-> AckDeadline]

ConfigOf(s) == [topic |-> s.topic, dlt |-> s.dlt, maxAttempts |-> s.maxAttempts, ack |-> s.ack]

\* configurations a subscription left by somebody else may have
PriorConfigs ==
  { [topic |-> "t1", dlt |-> TopicString("p", "t2"), maxAttempts |-> 10, ack |-> 60],
    [topic |-> "t1", dlt |-> TopicString("p", "t2"), maxAttempts |-> 5, ack |-> 10],
    [topic |-> "t2", dlt |-> <<>>, maxAttempts |-> 0, ack |-> 10] }

Envs == [emulatorHost : {"", "h"}, projectID : {"", "p"}, topicID : {"", "t1"},
         subID : {"", "s1"}, dltID : {"", "t1", "t2"}]

InitTopics == [TopicNames -> {NoTopic, [exists |-> TRUE, by |-> 0]}]
InitSubs == {NoSub} \cup { [exists |-> TRUE, topic |-> c.topic, dlt |-> c.dlt,
                            maxAttempts |-> c.maxAttempts, ack |-> c.ack, by |-> 0] : c \in PriorConfigs }

Emu == [topics |-> topics, sub |-> sub]

Call(op, res, ret) == [op |-> op, res |-> res, ret |-> ret]

\* ------------------------------------------------------------- logger
ValidLevels == {"DEBUG", "INFO", "WARN", "ERROR"}
LogLevels == {"", "DEBUG", "verbose"}

\* the error NewAppLogger returns
NewAppLogger(levelStr) ==
  IF levelStr # "" /\ levelStr \notin ValidLevels THEN "ErrUnknownLogLevel" ELSE "nil"

\* ------------------------------------------------------------- steps of main
Goto(p, l) == pc' = [pc EXCEPT ![p] = l]
Log(p, c) == calls' = [calls EXCEPT ![p] = Append(@, c)]
ExtFail(p) == extFailed' = [extFailed EXCEPT ![p] = TRUE]

\* os.Getwd and godotenv.Load
Start(p) ==
  /\ pc[p] = "start"
  /\ \E getwdOk \in BOOLEAN, appEnv \in {"local", "prod"}, loadOk \in BOOLEAN :
       IF ~getwdOk \/ (appEnv = "local" /\ ~loadOk)
       THEN Goto(p, "fatal") /\ ExtFail(p)
       ELSE Goto(p, "logger") /\ UNCHANGED extFailed
  /\ UNCHANGED <<env, emuVars, exists, waitVars, waitErr, calls, netUsed, histVars>>

\* reading the identifiers, NewAppLogger and the handling of its error
SetupLogger(p) ==
  /\ pc[p] = "logger"
  /\ \E levelStr \in LogLevels :
       LET err == NewAppLogger(levelStr) IN
       IF err # "nil" /\ err # "ErrUnknownLogLevel"
       THEN Goto(p, "returned")
       ELSE Goto(p, "validate")
  /\ UNCHANGED <<env, emuVars, exists, waitVars, waitErr, calls, netUsed, extFailed, histVars>>

\* mutant: the dead-letter topic identifier is not validated
EnvCompleteNoDlt ==
  /\ env.emulatorHost # ""
  /\ env.projectID # ""
  /\ ~(env.topicID = "" \/ env.subID = "")

EnvComplete ==
  /\ env.emulatorHost # ""
  /\ env.projectID # ""
  /\ ~(env.topicID = "" \/ env.subID = "" \/ env.dltID = "")

Validate(p) ==
  /\ pc[p] = "validate"
  /\ IF EnvComplete THEN Goto(p, "resolve") ELSE Goto(p, "fatal")
  /\ UNCHANGED <<env, emuVars, exists, waitVars, waitErr, calls, netUsed, extFailed, histVars>>

\* net.ResolveTCPAddr, then the call of waitForPubSubEmulator with 30 s
Resolve(p) ==
  /\ pc[p] = "resolve"
  /\ netUsed' = [netUsed EXCEPT ![p] = TRUE]
  /\ \E ok \in BOOLEAN :
       IF ok
       THEN /\ Goto(p, "waitEnter")
            /\ timeout' = [timeout EXCEPT ![p] = MainTimeout]
            /\ UNCHANGED extFailed
       ELSE /\ Goto(p, "fatal")
            /\ ExtFail(p)
            /\ UNCHANGED timeout
  /\ UNCHANGED <<env, emuVars, exists, clock, deadline, attempts, dialStart, dialOk,
                 waitErr, calls, histVars>>

\* ------------------------------------------------- waitForPubSubEmulator
WaitEnter(p) ==
  /\ pc[p] = "waitEnter"
  /\ deadline' = [deadline EXCEPT ![p] = clock[p] + timeout[p]]
  /\ Goto(p, "waitTest")
  /\ UNCHANGED <<env, emuVars, exists, timeout, clock, attempts, dialStart, dialOk,
                 waitErr, calls, netUsed, extFailed, histVars>>

\* time.Now().After(deadline)
DeadlinePassed(p) == clock[p] > deadline[p]

WaitTest(p) ==
  /\ pc[p] = "waitTest"
  /\ IF DeadlinePassed(p)
     THEN /\ waitErr' = [waitErr EXCEPT ![p] = "timeout"]
          /\ Goto(p, "waitRet")
     ELSE /\ Goto(p, "waitDial")
          /\ UNCHANGED waitErr
  /\ UNCHANGED <<env, emuVars, exists, waitVars, calls, netUsed, extFailed, histVars>>

WaitDial(p) ==
  /\ pc[p] = "waitDial"
  /\ attempts' = [attempts EXCEPT ![p] = @ + 1]
  /\ dialStart' = [dialStart EXCEPT ![p] = clock[p]]
  /\ netUsed' = [netUsed EXCEPT ![p] = TRUE]
  /\ \E d \in 0..MaxDialTime, ok \in BOOLEAN :
       /\ clock' = [clock EXCEPT ![p] = @ + d]
       /\ IF ok
          THEN /\ waitErr' = [waitErr EXCEPT ![p] = "nil"]
               /\ dialOk' = [dialOk EXCEPT ![p] = TRUE]
               /\ Goto(p, "waitRet")
          ELSE /\ Goto(p, "waitSleep")
               /\ UNCHANGED <<waitErr, dialOk>>
  /\ UNCHANGED <<env, emuVars, exists, timeout, deadline, calls, extFailed, histVars>>

\* mutant: the pause between two dials is one second short
WaitSleepShort(p) ==
  /\ pc[p] = "waitSleep"
  /\ \E o \in 0..MaxOversleep :
       clock' = [clock EXCEPT ![p] = @ + (SleepInterval - 1) + o]
  /\ Goto(p, "waitTest")
  /\ UNCHANGED <<env, emuVars, exists, timeout, deadline, attempts, dialStart, dialOk,
                 waitErr, calls, netUsed, extFailed, histVars>>

WaitSleep(p) ==
  /\ pc[p] = "waitSleep"
  /\ \E o \in 0..MaxOversleep :
       clock' = [clock EXCEPT ![p] = @ + SleepInterval + o]
  /\ Goto(p, "waitTest")
  /\ UNCHANGED <<env, emuVars, exists, timeout, deadline, attempts, dialStart, dialOk,
                 waitErr, calls, netUsed, extFailed, histVars>>

\* mutant: the error of waitForPubSubEmulator is not looked at
WaitReturnIgnoreErr(p) ==
  /\ pc[p] = "waitRet"
  /\ Goto(p, "newClient")
  /\ timeout' = [timeout EXCEPT ![p] = 0]
  /\ clock' = [clock EXCEPT ![p] = 0]
  /\ deadline' = [deadline EXCEPT ![p] = 0]
  /\ attempts' = [attempts EXCEPT ![p] = 0]
  /\ dialStart' = [dialStart EXCEPT ![p] = 0]
  /\ dialOk' = [dialOk EXCEPT ![p] = FALSE]
  /\ UNCHANGED <<env, emuVars, exists, waitErr, calls, netUsed, extFailed, histVars>>

\* back in main: the frame of waitForPubSubEmulator is gone
WaitReturn(p) ==
  /\ pc[p] = "waitRet"
  /\ IF waitErr[p] # "nil"
     THEN Goto(p, "fatal") /\ ExtFail(p)
     ELSE Goto(p, "newClient") /\ UNCHANGED extFailed
  /\ timeout' = [timeout EXCEPT ![p] = 0]
  /\ clock' = [clock EXCEPT ![p] = 0]
  /\ deadline' = [deadline EXCEPT ![p] = 0]
  /\ attempts' = [attempts EXCEPT ![p] = 0]
  /\ dialStart' = [dialStart EXCEPT ![p] = 0]
  /\ dialOk' = [dialOk EXCEPT ![p] = FALSE]
  /\ UNCHANGED <<env, emuVars, exists, waitErr, calls, netUsed, histVars>>

\* ------------------------------------------------- the emulator steps
NewClient(p) ==
  /\ pc[p] = "newClient"
  /\ netUsed' = [netUsed EXCEPT ![p] = TRUE]
  /\ \E ok \in BOOLEAN :
       IF ok
       THEN Goto(p, "dltExists") /\ UNCHANGED extFailed
       ELSE Goto(p, "fatal") /\ ExtFail(p)
  /\ UNCHANGED <<env, emuVars, exists, waitVars, waitErr, calls, histVars>>

\* Topic.Exists for the topic of one of the two steps
TopicExistsStep(p, here, role, id, ifAbsent, ifPresent) ==
  /\ pc[p] = here
  /\ \E ok \in BOOLEAN :
       IF ok
       THEN /\ exists' = [exists EXCEPT ![p] = topics[id].exists]
            /\ Log(p, Call("Exists", role, IF topics[id].exists THEN "true" ELSE "false"))
            /\ Goto(p, IF topics[id].exists THEN ifPresent ELSE ifAbsent)
            /\ UNCHANGED extFailed
       ELSE /\ Log(p, Call("Exists", role, "err"))
            /\ Goto(p, "fatal")
            /\ ExtFail(p)
            /\ UNCHANGED exists
  /\ UNCHANGED <<env, emuVars, waitVars, waitErr, netUsed, histVars>>

\* Client.CreateTopic: AlreadyExists when the topic is there; "fail" is an
\* outside failure before the emulator acted, "lost" one after it acted
CreateTopicStep(p, here, role, id, next) ==
  /\ pc[p] = here
  /\ \E out \in {"ok", "fail", "lost"} :
       LET can == ~topics[id].exists
           acted == can /\ out # "fail"
           err == ~can \/ out # "ok"
       IN /\ topics' = IF acted THEN [topics EXCEPT ![id] = [exists |-> TRUE, by |-> run[p]]]
                                ELSE topics
          /\ Log(p, Call("CreateTopic", role, IF err THEN "err" ELSE "ok"))
          /\ Goto(p, IF err THEN "fatal" ELSE next)
          /\ extFailed' = [extFailed EXCEPT ![p] = @ \/ out # "ok"]
  /\ UNCHANGED <<env, sub, exists, waitVars, waitErr, netUsed, histVars>>

\* mutant: the dead-letter topic is never created
DltExistsSkipCreate(p) ==
  TopicExistsStep(p, "dltExists", "dlt", env.dltID, "topicExists", "topicExists")

\* mutant: the main topic is created whatever Exists returned
MainTopicExistsAlwaysCreate(p) ==
  TopicExistsStep(p, "topicExists", "topic", env.topicID, "topicCreate", "topicCreate")

\* mutant: the error of CreateTopic for the dead-letter topic is dropped
CreateDltIgnoreErr(p) ==
  /\ pc[p] = "dltCreate"
  /\ \E out \in {"ok", "fail", "lost"} :
       LET can == ~topics[env.dltID].exists
           acted == can /\ out # "fail"
           err == ~can \/ out # "ok"
       IN /\ topics' = IF acted
                       THEN [topics EXCEPT ![env.dltID] = [exists |-> TRUE, by |-> run[p]]]
                       ELSE topics
          /\ Log(p, Call("CreateTopic", "dlt", IF err THEN "err" ELSE "ok"))
          /\ Goto(p, "topicExists")
          /\ extFailed' = [extFailed EXCEPT ![p] = @ \/ out # "ok"]
  /\ UNCHANGED <<env, sub, exists, waitVars, waitErr, netUsed, histVars>>

DltExists(p) == TopicExistsStep(p, "dltExists", "dlt", env.dltID, "dltCreate", "topicExists")
CreateDlt(p) == CreateTopicStep(p, "dltCreate", "dlt", env.dltID, "topicExists")
MainTopicExists(p) == TopicExistsStep(p, "topicExists", "topic", env.topicID, "topicCreate", "subExists")
CreateMainTopic(p) == CreateTopicStep(p, "topicCreate", "topic", env.topicID, "subExists")

\* mutant: an existing subscription is not deleted before the create
SubExistsNoDelete(p) ==
  /\ pc[p] = "subExists"
  /\ \E ok \in BOOLEAN :
       IF ok
       THEN /\ exists' = [exists EXCEPT ![p] = sub.exists]
            /\ Log(p, Call("Exists", "sub", IF sub.exists THEN "true" ELSE "false"))
            /\ Goto(p, "subCreate")
            /\ UNCHANGED extFailed
       ELSE /\ Log(p, Call("Exists", "sub", "err"))
            /\ Goto(p, "fatal")
            /\ ExtFail(p)
            /\ UNCHANGED exists
  /\ UNCHANGED <<env, emuVars, waitVars, waitErr, netUsed, histVars>>

SubExists(p) ==
  /\ pc[p] = "subExists"
  /\ \E ok \in BOOLEAN :
       IF ok
       THEN /\ exists' = [exists EXCEPT ![p] = sub.exists]
            /\ Log(p, Call("Exists", "sub", IF sub.exists THEN "true" ELSE "false"))
            /\ Goto(p, IF sub.exists THEN "subDelete" ELSE "subCreate")
            /\ UNCHANGED extFailed
       ELSE /\ Log(p, Call("Exists", "sub", "err"))
            /\ Goto(p, "fatal")
            /\ ExtFail(p)
            /\ UNCHANGED exists
  /\ UNCHANGED <<env, emuVars, waitVars, waitErr, netUsed, histVars>>

\* mutant: the error of Delete is dropped and the create goes ahead
DeleteSubIgnoreErr(p) ==
  /\ pc[p] = "subDelete"
  /\ \E out \in {"ok", "fail", "lost"} :
       LET can == sub.exists
           acted == can /\ out # "fail"
           err == ~can \/ out # "ok"
       IN /\ sub' = IF acted THEN NoSub ELSE sub
          /\ Log(p, Call("Delete", "sub", IF err THEN "err" ELSE "ok"))
          /\ Goto(p, "subCreate")
          /\ extFailed' = [extFailed EXCEPT ![p] = @ \/ out # "ok"]
  /\ UNCHANGED <<env, topics, exists, waitVars, waitErr, netUsed, histVars>>

\* mutant: the create sits in the else branch, so a deleted subscription
\* is not created again
DeleteSubThenDone(p) ==
  /\ pc[p] = "subDelete"
  /\ \E out \in {"ok", "fail", "lost"} :
       LET can == sub.exists
           acted == can /\ out # "fail"
           err == ~can \/ out # "ok"
       IN /\ sub' = IF acted THEN NoSub ELSE sub
          /\ Log(p, Call("Delete", "sub", IF err THEN "err" ELSE "ok"))
          /\ Goto(p, IF err THEN "fatal" ELSE "done")
          /\ extFailed' = [extFailed EXCEPT ![p] = @ \/ out # "ok"]
  /\ UNCHANGED <<env, topics, exists, waitVars, waitErr, netUsed, histVars>>

\* Subscription.Delete: NotFound when the subscription is not there
DeleteSub(p) ==
  /\ pc[p] = "subDelete"
  /\ \E out \in {"ok", "fail", "lost"} :
       LET can == sub.exists
           acted == can /\ out # "fail"
           err == ~can \/ out # "ok"
       IN /\ sub' = IF acted THEN NoSub ELSE sub
          /\ Log(p, Call("Delete", "sub", IF err THEN "err" ELSE "ok"))
          /\ Goto(p, IF err THEN "fatal" ELSE "subCreate")
          /\ extFailed' = [extFailed EXCEPT ![p] = @ \/ out # "ok"]
  /\ UNCHANGED <<env, topics, exists, waitVars, waitErr, netUsed, histVars>>

\* Client.CreateSubscription with subConfig: AlreadyExists when the
\* subscription is there, NotFound when its topic is not; then the two
\* closing log lines
CreateSub(p) ==
  /\ pc[p] = "subCreate"
  /\ \E out \in {"ok", "fail", "lost"} :
       LET can == ~sub.exists /\ topics[SubConfig.topic].exists
           acted == can /\ out # "fail"
           err == ~can \/ out # "ok"
       IN /\ sub' = IF acted
                    THEN [exists |-> TRUE, topic |-> SubConfig.topic, dlt |-> SubConfig.dlt,
                          maxAttempts |-> SubConfig.maxAttempts, ack |-> SubConfig.ack,
                          by |-> run[p]]
                    ELSE sub
          /\ Log(p, Call("CreateSubscription", "sub", IF err THEN "err" ELSE "ok"))
          /\ Goto(p, IF err THEN "fatal" ELSE "done")
          /\ extFailed' = [extFailed EXCEPT ![p] = @ \/ out # "ok"]
  /\ UNCHANGED <<env, topics, exists, waitVars, waitErr, netUsed, histVars>>

\* the utility is run again
Rerun(p) ==
  /\ pc[p] \in {"done", "fatal", "returned"}
  /\ run[p] < MaxRuns
  /\ run' = [run EXCEPT ![p] = @ + 1]
  /\ prevDone' = [prevDone EXCEPT ![p] = (pc[p] = "done")]
  /\ snap' = [snap EXCEPT ![p] = Emu]
  /\ Goto(p, "start")
  /\ exists' = [exists EXCEPT ![p] = FALSE]
  /\ waitErr' = [waitErr EXCEPT ![p] = "none"]
  /\ calls' = [calls EXCEPT ![p] = <<>>]
  /\ netUsed' = [netUsed EXCEPT ![p] = FALSE]
  /\ extFailed' = [extFailed EXCEPT ![p] = FALSE]
  /\ UNCHANGED <<env, emuVars, waitVars>>

\* ------------------------------------------------------------- specifications
InitLocals ==
  /\ exists = [p \in Procs |-> FALSE]
  /\ timeout = [p \in Procs |-> 0]
  /\ clock = [p \in Procs |-> 0]
  /\ deadline = [p \in Procs |-> 0]
  /\ attempts = [p \in Procs |-> 0]
  /\ dialStart = [p \in Procs |-> 0]
  /\ dialOk = [p \in Procs |-> FALSE]
  /\ waitErr = [p \in Procs |-> "none"]
  /\ calls = [p \in Procs |-> <<>>]
  /\ netUsed = [p \in Procs |-> FALSE]
  /\ extFailed = [p \in Procs |-> FALSE]
  /\ prevDone = [p \in Procs |-> FALSE]

InitEmu ==
  /\ topics \in InitTopics
  /\ sub \in InitSubs
  /\ snap = [p \in Procs |-> Emu]

\* one instance, run up to MaxRuns times in a row
Init ==
  /\ env \in Envs
  /\ InitEmu
  /\ InitLocals
  /\ pc = [p \in Procs |-> IF p = 1 THEN "start" ELSE "off"]
  /\ run = [p \in Procs |-> IF p = 1 THEN 1 ELSE 0]

MainStep(p) ==
  \/ Start(p)
  \/ SetupLogger(p)
  \/ Validate(p)
  \/ Resolve(p)
  \/ WaitReturn(p)
  \/ NewClient(p)

WaitStep(p) ==
  \/ WaitEnter(p)
  \/ WaitTest(p)
  \/ WaitDial(p)
  \/ WaitSleep(p)

EmuStep(p) ==
  \/ DltExists(p)
  \/ CreateDlt(p)
  \/ MainTopicExists(p)
  \/ CreateMainTopic(p)
  \/ SubExists(p)
  \/ DeleteSub(p)
  \/ CreateSub(p)

Next == \E p \in Procs : MainStep(p) \/ WaitStep(p) \/ EmuStep(p) \/ Rerun(p)

Spec == Init /\ [][Next]_vars

\* waitForPubSubEmulator on its own, called with every timeout up to
\* MaxTimeout; the process keeps running, so its next step is always taken
InitWait ==
  /\ env = [emulatorHost |-> "h", projectID |-> "p", topicID |-> "t1",
            subID |-> "s1", dltID |-> "t2"]
  /\ topics = [t \in TopicNames |-> NoTopic]
  /\ sub = NoSub
  /\ snap = [p \in Procs |-> Emu]
  /\ exists = [p \in Procs |-> FALSE]
  /\ timeout \in [Procs -> 0..MaxTimeout]
  /\ timeout[2] = 0
  /\ clock = [p \in Procs |-> 0]
  /\ deadline = [p \in Procs |-> 0]
  /\ attempts = [p \in Procs |-> 0]
  /\ dialStart = [p \in Procs |-> 0]
  /\ dialOk = [p \in Procs |-> FALSE]
  /\ waitErr = [p \in Procs |-> "none"]
  /\ calls = [p \in Procs |-> <<>>]
  /\ netUsed = [p \in Procs |-> TRUE]
  /\ extFailed = [p \in Procs |-> FALSE]
  /\ prevDone = [p \in Procs |-> FALSE]
  /\ pc = [p \in Procs |-> IF p = 1 THEN "waitEnter" ELSE "off"]
  /\ run = [p \in Procs |-> IF p = 1 THEN 1 ELSE 0]

NextWait == \E p \in Procs : WaitStep(p)

SpecWait == InitWait /\ [][NextWait]_vars /\ WF_vars(NextWait)

\* two instances with the same identifiers on one emulator, both past the
\* validation and the port wait (which touch nothing on the emulator), each
\* run once
InitConc ==
  /\ env \in Envs
  /\ EnvComplete
  /\ InitEmu
  /\ exists = [p \in Procs |-> FALSE]
  /\ timeout = [p \in Procs |-> 0]
  /\ clock = [p \in Procs |-> 0]
  /\ deadline = [p \in Procs |-> 0]
  /\ attempts = [p \in Procs |-> 0]
  /\ dialStart = [p \in Procs |-> 0]
  /\ dialOk = [p \in Procs |-> FALSE]
  /\ waitErr = [p \in Procs |-> "nil"]
  /\ calls = [p \in Procs |-> <<>>]
  /\ netUsed = [p \in Procs |-> TRUE]
  /\ extFailed = [p \in Procs |-> FALSE]
  /\ prevDone = [p \in Procs |-> FALSE]
  /\ pc = [p \in Procs |-> "newClient"]
  /\ run = [p \in Procs |-> p]

NextConc == \E p \in Procs : NewClient(p) \/ EmuStep(p)

SpecConc == InitConc /\ [][NextConc]_vars

\* ------------------------------------------------------------- properties
Idx(p) == 1..Len(calls[p])
HasCall(p, op, res, ret) == \E i \in Idx(p) : calls[p][i] = Call(op, res, ret)
NumCalls(p, op) == Cardinality({i \in Idx(p) : calls[p][i].op = op})
Terminated(p) == pc[p] \in {"done", "fatal", "returned"}
PostWait == {"newClient", "dltExists", "dltCreate", "topicExists", "topicCreate",
             "subExists", "subDelete", "subCreate", "done"}
CompleteEnvs == {e \in Envs : e.emulatorHost # "" /\ e.projectID # "" /\ e.topicID # ""
                                /\ e.subID # "" /\ e.dltID # ""}
PreWait == {"start", "logger", "validate", "resolve"}
InWait == {"waitEnter", "waitTest", "waitDial", "waitSleep", "waitRet"}

\* C1: a run that logs "Pub/Sub emulator setup complete." leaves the
\* dead-letter topic, the main topic and the subscription existing, the
\* subscription on the main topic with a dead-letter policy naming the
\* dead-letter topic, MaxDeliveryAttempts = 10 and AckDeadline = 60 s,
\* whatever the emulator held before.
C1_SetupComplete ==
  \A p \in Procs :
    pc[p] = "done" =>
      /\ topics[env.dltID].exists
      /\ topics[env.topicID].exists
      /\ sub.exists
      /\ sub.topic = env.topicID
      /\ sub.dlt = <<"projects", env.projectID, "topics", env.dltID>>
      /\ sub.maxAttempts = 10
      /\ sub.ack = 60

\* the first run completed over a subscription that was configured otherwise
\* and with a topic missing
C1_Witness ==
  /\ pc[1] = "done"
  /\ run[1] = 1
  /\ snap[1].sub.exists
  /\ snap[1].sub.maxAttempts = 5
  /\ ~snap[1].topics[env.dltID].exists

\* C2: idempotence.  With the identifiers set, a run that meets no outside
\* failure does not end in an error, whatever the emulator held when it
\* started; and a run that follows a successful run, when it completes,
\* leaves the same topics and the same subscription configuration as it
\* found, i.e. as the first run left them.
C2_Idempotent ==
  \A p \in Procs :
    /\ (pc[p] \in {"fatal", "returned"} /\ env \in CompleteEnvs) => extFailed[p]
    /\ (run[p] >= 2 /\ prevDone[p] /\ pc[p] = "done") =>
         /\ topics = snap[p].topics
         /\ sub.exists /\ snap[p].sub.exists
         /\ ConfigOf(sub) = ConfigOf(snap[p].sub)

C2_Witness ==
  /\ run[1] = 2
  /\ prevDone[1]
  /\ pc[1] = "done"
  /\ ~extFailed[1]

\* C3: CreateTopic is called for a topic exactly when its Exists call
\* returned false, never after an Exists that returned true; no call other
\* than Exists and CreateTopic is made on a topic, and a topic that existed
\* when the run started is the same topic afterwards.
C3_TopicsCreatedIffAbsent ==
  \A p \in Procs :
    /\ \A i \in Idx(p) :
         LET c == calls[p][i] IN
         /\ c.res \in {"dlt", "topic"} => c.op \in {"Exists", "CreateTopic"}
         /\ c.op = "CreateTopic" =>
              /\ i > 1
              /\ calls[p][i - 1] = Call("Exists", c.res, "false")
         /\ c = Call("Exists", "dlt", "false") =>
              IF i < Len(calls[p])
              THEN calls[p][i + 1].op = "CreateTopic" /\ calls[p][i + 1].res = "dlt"
              ELSE pc[p] = "dltCreate"
         /\ c = Call("Exists", "topic", "false") =>
              IF i < Len(calls[p])
              THEN calls[p][i + 1].op = "CreateTopic" /\ calls[p][i + 1].res = "topic"
              ELSE pc[p] = "topicCreate"
         /\ (c.op = "Exists" /\ c.ret = "true" /\ c.res \in {"dlt", "topic"}) =>
              ~\E j \in Idx(p) : calls[p][j].op = "CreateTopic" /\ calls[p][j].res = c.res
    /\ \A t \in TopicNames :
         (pc[p] # "off" /\ snap[p].topics[t].exists) => topics[t] = snap[p].topics[t]

\* a completed run that found the dead-letter topic and created the main one
C3_Witness ==
  /\ pc[1] = "done"
  /\ HasCall(1, "Exists", "dlt", "true")
  /\ HasCall(1, "Exists", "topic", "false")
  /\ HasCall(1, "CreateTopic", "topic", "ok")
  /\ topics[env.dltID].by = 0
  /\ topics[env.topicID].by = run[1]

\* C4: Delete is called exactly after an Exists on the subscription that
\* returned true; CreateSubscription is called only right after an Exists
\* that returned false or a Delete that succeeded; a completed run made
\* exactly one CreateSubscription, and the subscription it leaves is the one
\* it created, with the configuration taken from the identifiers alone.
C4_DeleteThenCreate ==
  \A p \in Procs :
    /\ \A i \in Idx(p) :
         LET c == calls[p][i] IN
         /\ c.op = "Delete" =>
              i > 1 /\ calls[p][i - 1] = Call("Exists", "sub", "true")
         /\ c = Call("Exists", "sub", "true") =>
              IF i < Len(calls[p])
              THEN calls[p][i + 1].op = "Delete"
              ELSE pc[p] = "subDelete"
         /\ c = Call("Exists", "sub", "false") =>
              IF i < Len(calls[p])
              THEN calls[p][i + 1].op = "CreateSubscription"
              ELSE pc[p] = "subCreate"
         /\ c.op = "CreateSubscription" =>
              /\ i > 1
              /\ calls[p][i - 1] \in {Call("Exists", "sub", "false"), Call("Delete", "sub", "ok")}
    /\ pc[p] = "done" =>
         /\ NumCalls(p, "CreateSubscription") = 1
         /\ NumCalls(p, "Delete") = (IF snap[p].sub.exists THEN 1 ELSE 0)
         /\ sub.by = run[p]
         /\ ConfigOf(sub) = [topic |-> env.topicID,
                             dlt |-> <<"projects", env.projectID, "topics", env.dltID>>,
                             maxAttempts |-> 10, ack |-> 60]

\* a completed run that deleted a differently configured subscription
C4_Witness ==
  /\ pc[1] = "done"
  /\ HasCall(1, "Delete", "sub", "ok")
  /\ ConfigOf(snap[1].sub) # ConfigOf(sub)

\* C5: the client is created and the emulator is called only after
\* waitForPubSubEmulator returned nil; until then, and for good when the
\* wait timed out, the emulator is as the run found it.
C5_WaitBeforeProceeding ==
  \A p \in Procs :
    /\ (pc[p] \in PostWait \/ calls[p] # <<>>) => waitErr[p] = "nil"
    /\ (pc[p] \in PreWait \cup InWait) => (calls[p] = <<>> /\ Emu = snap[p])
    /\ waitErr[p] = "timeout" =>
         /\ pc[p] \in {"waitRet", "fatal"}
         /\ calls[p] = <<>>
         /\ Emu = snap[p]

\* the wait timed out and the process has exited
C5_Witness ==
  /\ pc[1] = "fatal"
  /\ waitErr[1] = "timeout"
  /\ topics[env.topicID].exists = FALSE

\* C7: an emulator call that returned an error is the last call of its run
\* and the run has ended in a fatal error; a run that logged completion saw
\* no error and made every step; a run that failed before calling Delete or
\* CreateSubscription left the subscription as it found it.
C7_FatalOnError ==
  \A p \in Procs :
    /\ \A i \in Idx(p) :
         calls[p][i].ret = "err" => (i = Len(calls[p]) /\ pc[p] = "fatal")
    /\ pc[p] = "done" =>
         /\ \A i \in Idx(p) : calls[p][i].ret # "err"
         /\ waitErr[p] = "nil"
         /\ \E r \in {"true", "false"} : HasCall(p, "Exists", "dlt", r)
         /\ \E r \in {"true", "false"} : HasCall(p, "Exists", "topic", r)
         /\ \E r \in {"true", "false"} : HasCall(p, "Exists", "sub", r)
         /\ calls[p][Len(calls[p])] = Call("CreateSubscription", "sub", "ok")
    /\ (pc[p] = "fatal" /\ NumCalls(p, "Delete") = 0 /\ NumCalls(p, "CreateSubscription") = 0) =>
         sub = snap[p].sub

\* the run died on CreateTopic for the main topic, the subscription was there
C7_Witness ==
  /\ pc[1] = "fatal"
  /\ HasCall(1, "CreateTopic", "topic", "err")
  /\ sub.exists
  /\ topics[env.dltID].by = run[1]

\* C8: with one of the five identifiers empty the run ends at the
\* validation: it never resolves, dials, creates a client or calls the
\* emulator, and the emulator is unchanged.
C8_ValidationFirst ==
  \A p \in Procs :
    (pc[p] # "off" /\ ~(env.emulatorHost # "" /\ env.projectID # "" /\ env.topicID # ""
                         /\ env.subID # "" /\ env.dltID # "")) =>
      /\ pc[p] \in {"start", "logger", "validate", "fatal"}
      /\ ~netUsed[p]
      /\ calls[p] = <<>>
      /\ Emu = snap[p]

\* the validation stopped a run whose only empty identifier is the DLT one
C8_Witness ==
  /\ pc[1] = "fatal"
  /\ ~extFailed[1]
  /\ env.dltID = ""
  /\ env.emulatorHost # "" /\ env.projectID # "" /\ env.topicID # "" /\ env.subID # ""

Rank(res) == CASE res = "dlt" -> 1 [] res = "topic" -> 2 [] res = "sub" -> 3

\* C9: the calls of a run go dead-letter topic, main topic, subscription;
\* when CreateSubscription is about to be or has been called both topics
\* exist, and a subscription created by a run names existing topics.
C9_TopicsBeforeSubscription ==
  \A p \in Procs :
    /\ \A i, j \in Idx(p) : i < j => Rank(calls[p][i].res) <= Rank(calls[p][j].res)
    /\ (pc[p] = "subCreate" \/ NumCalls(p, "CreateSubscription") > 0) =>
         topics[env.topicID].exists /\ topics[env.dltID].exists
    /\ (sub.exists /\ sub.by # 0) =>
         /\ topics[sub.topic].exists
         /\ topics[sub.dlt[4]].exists

\* the run created both topics and then the subscription
C9_Witness ==
  /\ pc[1] = "done"
  /\ topics[env.dltID].by = 1
  /\ topics[env.topicID].by = 1
  /\ env.dltID # env.topicID
  /\ sub.by = 1

\* every state of a wait: nil is returned exactly when a dial succeeded and
\* nothing runs after that dial; the timeout error means no dial succeeded
\* and the clock is past the deadline; every dial started at or before the
\* deadline; at most timeout/2s + 1 dials
C6_WaitInv ==
  \A p \in Procs :
    /\ pc[p] = "waitRet" => (waitErr[p] = "nil" <=> dialOk[p])
    /\ dialOk[p] => (pc[p] = "waitRet" /\ waitErr[p] = "nil")
    /\ waitErr[p] = "timeout" => (~dialOk[p] /\ clock[p] > deadline[p] /\ pc[p] = "waitRet")
    /\ attempts[p] > 0 => dialStart[p] <= deadline[p]
    /\ attempts[p] <= (timeout[p] \div 2) + 1

\* C6: waitForPubSubEmulator always returns, and while it runs: it returns
\* nil exactly when a dial succeeded, at that first success; it returns the
\* timeout error only after every dial failed and the deadline has passed;
\* no dial starts after the deadline and there are at most timeout/2s + 1.
C6_BoundedWait == [](C6_WaitInv) /\ <>(pc[1] = "waitRet")

\* a wait that gave up after the largest number of dials its timeout allows
C6_Witness ==
  /\ pc[1] = "waitRet"
  /\ waitErr[1] = "timeout"
  /\ timeout[1] = 4
  /\ attempts[1] = 3

\* C10: two concurrent instances, no outside failure: never both end in a
\* fatal error, and once both have ended both topics exist and the
\* subscription exists with the intended configuration.
C10_TwoInstances ==
  (~extFailed[1] /\ ~extFailed[2]) =>
    /\ ~(pc[1] = "fatal" /\ pc[2] = "fatal")
    /\ (Terminated(1) /\ Terminated(2)) =>
         /\ pc[1] = "done" \/ pc[2] = "done"
         /\ topics[env.dltID].exists
         /\ topics[env.topicID].exists
         /\ sub.exists
         /\ ConfigOf(sub) = [topic |-> env.topicID,
                             dlt |-> <<"projects", env.projectID, "topics", env.dltID>>,
                             maxAttempts |-> 10, ack |-> 60]

\* a race on the subscription ended one of the two instances
C10_Witness ==
  /\ ~extFailed[1] /\ ~extFailed[2]
  /\ pc[1] = "done"
  /\ pc[2] = "fatal"
  /\ HasCall(2, "Delete", "sub", "err")
  /\ sub.by = 1

====
